---- MODULE Spec2Model ----
(***************************************************************************)
(* Model of the rewm tiling window manager (src/src/main.rs).              *)
(*                                                                         *)
(* The program is one WindowManager object driven by a blocking receive    *)
(* loop.  The model keeps the object's fields (layout, windows), the       *)
(* position of the single thread (pc), the outgoing command buffer of the  *)
(* connection (outbuf), the server's pending answer to a refused startup    *)
(* request (errPending) and history variables that record what the last    *)
(* processed event did (last, prev, geom, evCount, faulted).               *)
(***************************************************************************)
EXTENDS Integers, Sequences, FiniteSets, TLC

(* ------------------------------ bounds --------------------------------- *)

\* Window handles the server may report are 1..NumHandles.
NumHandles == 3

\* Small screens have both dimensions in 0..MaxDim.
MaxDim == 1

(* --------------------------- program constants ------------------------- *)

ModMask_M4 == 64
ModMask_CONTROL == 4
ToggleKeycode == 65
QuitKeycode == 24
Capacity == 2

RECURSIVE BitOr(_, _)
BitOr(a, b) ==
  IF a = 0 THEN b
  ELSE IF b = 0 THEN a
  ELSE (IF a % 2 = 1 \/ b % 2 = 1 THEN 1 ELSE 0) + 2 * BitOr(a \div 2, b \div 2)

\* `v as i32` for a u32 value v: values with bit 31 set wrap to v - 2^32.
AsI32(v) ==
  IF v \div 65536 < 32768 THEN v ELSE ((v - 2147483647) - 2147483647) - 2

\* `v as u32` for a u16 value v: zero extension of the low 16 bits.
AsU32(v) == v % 65536

(* ------------------------------ inputs --------------------------------- *)

Handles == 1..NumHandles

\* width_in_pixels and height_in_pixels of the root (both u16).
Screens ==
  ((0..MaxDim) \X (0..MaxDim)) \cup {<<1920, 1080>>, <<65535, 65535>>}

\* Modifier states of a key press: none, a registered chord, a registered
\* chord with a bit missing or (with the other key) a bit added.
KeyStates ==
  { 0,
    ModMask_CONTROL,
    ModMask_M4,
    BitOr(ModMask_CONTROL, ModMask_M4) }

Keycodes == {ToggleKeycode, QuitKeycode}

MapRequest(w) == [kind |-> "MapRequest", window |-> w, state |-> 0, detail |-> 0]
KeyPress(s, k) == [kind |-> "KeyPress", window |-> 0, state |-> s, detail |-> k]
DestroyNotify(w) == [kind |-> "DestroyNotify", window |-> w, state |-> 0, detail |-> 0]
OtherEvent == [kind |-> "Other", window |-> 0, state |-> 0, detail |-> 0]
NoEvent == [kind |-> "None", window |-> 0, state |-> 0, detail |-> 0]

\* Event::Error for the startup request number r the server refused.
ErrorEvent(r) == [kind |-> "Error", window |-> 0, state |-> 0, detail |-> r]

(* ------------------------------- state --------------------------------- *)

VARIABLES
  pc,        \* "main", "run", "flush", "wait", "exited"
  screen,    \* <<width_in_pixels, height_in_pixels>> of the root
  layout,    \* WindowManager.layout
  windows,   \* WindowManager.windows (Vec<u32>, oldest first)
  outbuf,    \* requests issued on the connection and not yet flushed
  result,    \* "none" while running, then the Result of main: "Ok" or "Err"
  faulted,   \* some connection call (or spawn/connect) has reported an error
  geom,      \* per handle: <<the last geometry issued for it>> while it is
             \* tracked, <<>> if none was or once it has left the tracked set
  evCount,   \* events received since the last successful flush
  last,      \* what the last received event did
  prev,      \* the state before the event received before `last`, kept when
             \* that event was a toggle
  errPending \* the startup request (1..3) the server refused and whose error
             \* wait_for_event has not returned yet; 0 if none

vars == <<pc, screen, layout, windows, outbuf, result, faulted, geom,
          evCount, last, prev, errPending>>

(* ------------------------------ commands ------------------------------- *)

MapCmd(w) == [op |-> "map", window |-> w, x |-> 0, y |-> 0, width |-> 0, height |-> 0]

ConfigureCmd(w, x, y, wd, ht) ==
  [op |-> "configure", window |-> w, x |-> x, y |-> y, width |-> wd, height |-> ht]

SubscribeCmd ==
  [op |-> "subscribe", mask |-> {"SUBSTRUCTURE_REDIRECT", "SUBSTRUCTURE_NOTIFY"}]

GrabCmd(mods, key) == [op |-> "grab", mods |-> mods, key |-> key]

\* The calls of a handler that returned Ok when call number f reported a
\* fault (f = 0: none did).
Issued(calls, f) == IF f = 0 THEN calls ELSE SubSeq(calls, 1, f - 1)

(* ------------------------------ the code ------------------------------- *)

\* WindowManager::new
NewLayout == "Horizontal"
NewWindows == <<>>

\* arrange_windows giving the second window of a Horizontal layout the whole
\* screen width.
ArrangeCmds_FullWidth(ws, mode, scr) ==
  LET width == AsU32(scr[1])
      height == AsU32(scr[2])
  IN IF Len(ws) >= 2
     THEN IF mode = "Horizontal"
          THEN << ConfigureCmd(ws[1], 0, 0, width \div 2, height),
                  ConfigureCmd(ws[2], AsI32(width \div 2), 0, width, height) >>
          ELSE << ConfigureCmd(ws[1], 0, 0, width, height \div 2),
                  ConfigureCmd(ws[2], 0, AsI32(height \div 2), width, height \div 2) >>
     ELSE <<>>

\* arrange_windows that also lays out a single window, over the whole screen.
ArrangeCmds_FromOne(ws, mode, scr) ==
  LET width == AsU32(scr[1])
      height == AsU32(scr[2])
  IN IF Len(ws) >= 2
     THEN IF mode = "Horizontal"
          THEN << ConfigureCmd(ws[1], 0, 0, width \div 2, height),
                  ConfigureCmd(ws[2], AsI32(width \div 2), 0, width \div 2, height) >>
          ELSE << ConfigureCmd(ws[1], 0, 0, width, height \div 2),
                  ConfigureCmd(ws[2], 0, AsI32(height \div 2), width, height \div 2) >>
     ELSE IF Len(ws) = 1
     THEN << ConfigureCmd(ws[1], 0, 0, width, height) >>
     ELSE <<>>

\* arrange_windows with windows[0] and windows[1] exchanged.
ArrangeCmds_Swapped(ws, mode, scr) ==
  LET width == AsU32(scr[1])
      height == AsU32(scr[2])
  IN IF Len(ws) >= 2
     THEN IF mode = "Horizontal"
          THEN << ConfigureCmd(ws[2], 0, 0, width \div 2, height),
                  ConfigureCmd(ws[1], AsI32(width \div 2), 0, width \div 2, height) >>
          ELSE << ConfigureCmd(ws[2], 0, 0, width, height \div 2),
                  ConfigureCmd(ws[1], 0, AsI32(height \div 2), width, height \div 2) >>
     ELSE <<>>

\* The configure_window calls of arrange_windows, in order.
ArrangeCmds(ws, mode, scr) ==
  LET width == AsU32(scr[1])
      height == AsU32(scr[2])
  IN IF Len(ws) >= 2
     THEN IF mode = "Horizontal"
          THEN << ConfigureCmd(ws[1], 0, 0, width \div 2, height),
                  ConfigureCmd(ws[2], AsI32(width \div 2), 0, width \div 2, height) >>
          ELSE << ConfigureCmd(ws[1], 0, 0, width, height \div 2),
                  ConfigureCmd(ws[2], 0, AsI32(height \div 2), width, height \div 2) >>
     ELSE <<>>

\* toggle_layout whose Vertical arm stays Vertical.
FlipLayout_Stuck(mode) == "Vertical"

\* The assignment of toggle_layout.
FlipLayout(mode) == IF mode = "Horizontal" THEN "Vertical" ELSE "Horizontal"

\* setup_key_bindings grabbing the quit chord first.
SetupKeyBindings_Swapped ==
  << GrabCmd(BitOr(ModMask_CONTROL, ModMask_M4), QuitKeycode),
     GrabCmd(ModMask_M4, ToggleKeycode) >>

\* The grab_key calls of setup_key_bindings, in order.
SetupKeyBindings ==
  << GrabCmd(ModMask_M4, ToggleKeycode),
     GrabCmd(BitOr(ModMask_CONTROL, ModMask_M4), QuitKeycode) >>

\* Vec::remove(i), i counted from 0.
RemoveAt(s, i) == SubSeq(s, 1, i) \o SubSeq(s, i + 2, Len(s))

\* The push without the eviction.
PushWindow_NoEvict(ws, w) == Append(ws, w)

\* The push evicting index 1 instead of index 0.
PushWindow_EvictSecond(ws, w) ==
  LET pushed == Append(ws, w)
  IN IF Len(pushed) > Capacity THEN RemoveAt(pushed, 1) ELSE pushed

\* windows.push(w); if windows.len() > 2 { windows.remove(0) }
PushWindow(ws, w) ==
  LET pushed == Append(ws, w)
  IN IF Len(pushed) > Capacity THEN RemoveAt(pushed, 0) ELSE pushed

\* windows.iter().position(|&x| x == w): 0-based index of the first match, or -1.
Position(ws, w) ==
  IF \E i \in 1..Len(ws) : ws[i] = w
  THEN (CHOOSE i \in 1..Len(ws) : ws[i] = w /\ \A j \in 1..(i - 1) : ws[j] # w) - 1
  ELSE -1

\* The removal falling back to index 0 when the handle is not found.
DestroyWindow_Oldest(ws, w) ==
  IF Position(ws, w) >= 0 THEN RemoveAt(ws, Position(ws, w))
  ELSE IF ws # <<>> THEN RemoveAt(ws, 0) ELSE ws

\* if let Some(pos) = position { windows.remove(pos) }
DestroyWindow(ws, w) ==
  IF Position(ws, w) >= 0 THEN RemoveAt(ws, Position(ws, w)) ELSE ws

\* The toggle test comparing the keycode only.
IsToggleChord_AnyMods(s, k) == k = ToggleKeycode

IsToggleChord(s, k) == s = ModMask_M4 /\ k = ToggleKeycode

\* The quit test comparing the keycode only.
IsQuitChord_AnyMods(s, k) == k = QuitKeycode

IsQuitChord(s, k) == s = BitOr(ModMask_CONTROL, ModMask_M4) /\ k = QuitKeycode

\* A flush that sends nothing.
FlushBuf_Keep(buf) == buf

\* The buffer after conn.flush() returned Ok.
FlushBuf(buf) == <<>>

\* The process exit status main's result gives.
ExitCode(res) == IF res = "Ok" THEN 0 ELSE 1

(* --------------------------- history helpers --------------------------- *)

RECURSIVE ApplyCmds(_, _)
ApplyCmds(g, cmds) ==
  IF cmds = <<>> THEN g
  ELSE LET c == Head(cmds)
       IN ApplyCmds(IF c.op = "configure"
                    THEN [g EXCEPT ![c.window] =
                            <<[x |-> c.x, y |-> c.y, width |-> c.width, height |-> c.height]>>]
                    ELSE g,
                    Tail(cmds))

NoLast ==
  [ev |-> NoEvent, branch |-> "none", layout0 |-> NewLayout,
   windows0 |-> NewWindows, geom0 |-> [h \in Handles |-> <<>>],
   cmds |-> <<>>, fault |-> FALSE]

\* What `prev` keeps of an event record: the state before the event when
\* the event was a toggle, nothing otherwise.
Slim(rec) ==
  IF rec.branch = "toggle"
  THEN [branch |-> rec.branch, layout0 |-> rec.layout0,
        windows0 |-> rec.windows0, geom0 |-> rec.geom0]
  ELSE [branch |-> "none", layout0 |-> NewLayout,
        windows0 |-> NewWindows, geom0 |-> [h \in Handles |-> <<>>]]

InSeq(ws, h) == \E i \in 1..Len(ws) : ws[i] = h

\* The geometry history keeps the handles of the tracked set ws only.
Restrict(g, ws) == [h \in Handles |-> IF InSeq(ws, h) THEN g[h] ELSE <<>>]

\* The bookkeeping every received event shares; ws is the tracked set the
\* event leaves.
Record(ev, branch, cmds, f, ws) ==
  /\ last' = [ev |-> ev, branch |-> branch, layout0 |-> layout,
              windows0 |-> windows, geom0 |-> geom, cmds |-> cmds,
              fault |-> (f # 0)]
  /\ prev' = Slim(last)
  /\ geom' = Restrict(ApplyCmds(geom, cmds), ws)
  /\ outbuf' = outbuf \o cmds
  /\ evCount' = evCount + 1
  /\ faulted' = (faulted \/ f # 0)

(* ------------------------------ actions -------------------------------- *)

Init ==
  /\ pc = "main"
  /\ screen \in Screens
  /\ layout = NewLayout
  /\ windows = NewWindows
  /\ outbuf = <<>>
  /\ result = "none"
  /\ faulted = FALSE
  /\ geom = [h \in Handles |-> <<>>]
  /\ evCount = 0
  /\ last = NoLast
  /\ prev = Slim(NoLast)
  /\ errPending = 0

\* main up to the call of run: spawn the applications, connect, construct.
Main(f) ==
  /\ pc = "main"
  /\ IF f = "ok"
     THEN /\ pc' = "run"
          /\ UNCHANGED <<result, faulted>>
     ELSE /\ pc' = "exited"
          /\ result' = "Err"
          /\ faulted' = TRUE
  /\ UNCHANGED <<screen, layout, windows, outbuf, geom, evCount, last, prev,
                 errPending>>

\* run before its loop: change_window_attributes, then setup_key_bindings.
\* Call number f reports a ConnectionError (0: none).  The server refuses
\* request number r (0: none): each call returns Ok once its request is
\* queued and its cookie is dropped unchecked, so the refusal comes back
\* later as an Event::Error.
RunStartup(f, r) ==
  /\ pc = "run"
  /\ LET calls == <<SubscribeCmd>> \o SetupKeyBindings
     IN /\ f \in 0..Len(calls)
        /\ r \in 0..Len(calls)
        /\ outbuf' = outbuf \o Issued(calls, f)
        /\ IF f = 0
           THEN /\ pc' = "flush"
                /\ errPending' = r
                /\ UNCHANGED <<result, faulted>>
           ELSE /\ r = 0
                /\ pc' = "exited"
                /\ result' = "Err"
                /\ faulted' = TRUE
                /\ UNCHANGED errPending
  /\ UNCHANGED <<screen, layout, windows, geom, evCount, last, prev>>

\* The flush with its result dropped instead of propagated.
Flush_Ignore(f) ==
  /\ pc = "flush"
  /\ IF f = 0
     THEN /\ outbuf' = FlushBuf(outbuf)
          /\ evCount' = 0
          /\ UNCHANGED faulted
     ELSE /\ faulted' = TRUE
          /\ UNCHANGED <<outbuf, evCount>>
  /\ pc' = "wait"
  /\ UNCHANGED <<screen, layout, windows, geom, last, prev, result, errPending>>

\* self.conn.flush()? at the head of the loop.
Flush(f) ==
  /\ pc = "flush"
  /\ IF f = 0
     THEN /\ outbuf' = FlushBuf(outbuf)
          /\ evCount' = 0
          /\ pc' = "wait"
          /\ UNCHANGED <<result, faulted>>
     ELSE /\ pc' = "exited"
          /\ result' = "Err"
          /\ faulted' = TRUE
          /\ UNCHANGED <<outbuf, evCount>>
  /\ UNCHANGED <<screen, layout, windows, geom, last, prev, errPending>>

\* self.conn.wait_for_event()? reports a fault.
WaitFault ==
  /\ pc = "wait"
  /\ pc' = "exited"
  /\ result' = "Err"
  /\ faulted' = TRUE
  /\ UNCHANGED <<screen, layout, windows, outbuf, geom, evCount, last, prev,
                 errPending>>

\* The events below are received once the error of a refused startup request
\* (the server answers requests in order) has been returned.

\* The MapRequest arm laying out before the push.
OnMapRequest_ArrangeFirst(w, f) ==
  /\ pc = "wait"
  /\ errPending = 0
  /\ LET pushed == PushWindow(windows, w)
         calls == <<MapCmd(w)>> \o ArrangeCmds(windows, layout, screen)
     IN /\ f \in 0..Len(calls)
        /\ windows' = IF f = 1 THEN windows ELSE pushed
        /\ Record(MapRequest(w), "map", Issued(calls, f), f, windows')
        /\ IF f = 0
           THEN /\ pc' = "flush"
                /\ UNCHANGED result
           ELSE /\ pc' = "exited"
                /\ result' = "Err"
  /\ UNCHANGED <<screen, layout, errPending>>

\* The MapRequest arm laying out between the push and the eviction.
OnMapRequest_ArrangeBeforeEvict(w, f) ==
  /\ pc = "wait"
  /\ errPending = 0
  /\ LET pushed == PushWindow(windows, w)
         calls == <<MapCmd(w)>> \o ArrangeCmds(Append(windows, w), layout, screen)
     IN /\ f \in 0..Len(calls)
        /\ windows' = IF f = 1 THEN windows ELSE pushed
        /\ Record(MapRequest(w), "map", Issued(calls, f), f, windows')
        /\ IF f = 0
           THEN /\ pc' = "flush"
                /\ UNCHANGED result
           ELSE /\ pc' = "exited"
                /\ result' = "Err"
  /\ UNCHANGED <<screen, layout, errPending>>

\* Event::MapRequest
OnMapRequest(w, f) ==
  /\ pc = "wait"
  /\ errPending = 0
  /\ LET pushed == PushWindow(windows, w)
         calls == <<MapCmd(w)>> \o ArrangeCmds(pushed, layout, screen)
     IN /\ f \in 0..Len(calls)
        /\ windows' = IF f = 1 THEN windows ELSE pushed
        /\ Record(MapRequest(w), "map", Issued(calls, f), f, windows')
        /\ IF f = 0
           THEN /\ pc' = "flush"
                /\ UNCHANGED result
           ELSE /\ pc' = "exited"
                /\ result' = "Err"
  /\ UNCHANGED <<screen, layout, errPending>>

\* Event::KeyPress
OnKeyPress(s, k, f) ==
  /\ pc = "wait"
  /\ errPending = 0
  /\ IF IsToggleChord(s, k)
     THEN LET calls == ArrangeCmds(windows, FlipLayout(layout), screen)
          IN /\ f \in 0..Len(calls)
             /\ layout' = FlipLayout(layout)
             /\ Record(KeyPress(s, k), "toggle", Issued(calls, f), f, windows)
             /\ IF f = 0
                THEN /\ pc' = "flush"
                     /\ UNCHANGED result
                ELSE /\ pc' = "exited"
                     /\ result' = "Err"
     ELSE IF IsQuitChord(s, k)
     THEN /\ f = 0
          /\ Record(KeyPress(s, k), "quit", <<>>, 0, windows)
          /\ pc' = "exited"
          /\ result' = "Ok"
          /\ UNCHANGED layout
     ELSE /\ f = 0
          /\ Record(KeyPress(s, k), "nokey", <<>>, 0, windows)
          /\ pc' = "flush"
          /\ UNCHANGED <<layout, result>>
  /\ UNCHANGED <<screen, windows, errPending>>

\* Event::DestroyNotify
OnDestroyNotify(w) ==
  /\ pc = "wait"
  /\ errPending = 0
  /\ windows' = DestroyWindow(windows, w)
  /\ Record(DestroyNotify(w), "destroy", <<>>, 0, windows')
  /\ pc' = "flush"
  /\ UNCHANGED <<screen, layout, result, errPending>>

\* _ => {}
OnOther ==
  /\ pc = "wait"
  /\ errPending = 0
  /\ Record(OtherEvent, "other", <<>>, 0, windows)
  /\ pc' = "flush"
  /\ UNCHANGED <<screen, layout, windows, result, errPending>>

\* _ => {} matching the Event::Error of a refused startup request.
OnError ==
  /\ pc = "wait"
  /\ errPending # 0
  /\ Record(ErrorEvent(errPending), "other", <<>>, 0, windows)
  /\ errPending' = 0
  /\ pc' = "flush"
  /\ UNCHANGED <<screen, layout, windows, result>>

Next ==
  \/ \E f \in {"ok", "spawn", "connect"} : Main(f)
  \/ \E f \in 0..3, r \in 0..3 : RunStartup(f, r)
  \/ \E f \in 0..1 : Flush(f)
  \/ WaitFault
  \/ \E w \in Handles, f \in 0..3 : OnMapRequest(w, f)
  \/ \E s \in KeyStates, k \in Keycodes, f \in 0..2 : OnKeyPress(s, k, f)
  \/ \E w \in Handles : OnDestroyNotify(w)
  \/ OnOther
  \/ OnError

Spec == Init /\ [][Next]_vars

(* ------------------------------- claims -------------------------------- *)

IsConfigure(c) == c.op = "configure"

\* The geometry commands among cmds, in issue order.
Configs(cmds) == SelectSeq(cmds, IsConfigure)

\* The last event pushed its handle (map_window returned Ok).
Pushed == last.branch = "map" /\ last.cmds # <<>>

\* The last event invoked arrange_windows and every call of it returned Ok.
Arranged == last.branch \in {"map", "toggle"} /\ ~last.fault

\* C1: wherever the manager waits for the next event, the tracked window
\* set holds at most 2 handles.
C1_AtMostTwo == pc = "wait" => Len(windows) <= 2

\* C1 witness: the manager waits after a visibility request that arrived
\* while two handles were tracked.
C1_Witness ==
  pc = "wait" /\ Pushed /\ Len(last.windows0) = 2 /\ Len(windows) = 2

\* C2: the tracked window set never contains the same handle twice.
C2_NoDuplicates ==
  \A i, j \in 1..Len(windows) : i # j => windows[i] # windows[j]

\* C3: a visibility request for handle c processed while the tracked set is
\* [a, b] leaves the tracked set exactly [b, c].
C3_EvictOldest ==
  (Pushed /\ Len(last.windows0) = 2)
    => windows = <<last.windows0[2], last.ev.window>>

\* C3 witness: a third, distinct handle has been appended to [a, b].
C3_Witness ==
  /\ Pushed
  /\ Len(last.windows0) = 2
  /\ last.windows0[1] # last.windows0[2]
  /\ ~InSeq(last.windows0, last.ev.window)
  /\ windows = <<last.windows0[2], last.ev.window>>

\* C4: the two geometry commands of a layout of two windows have
\* non-negative x, y, width and height, and their extents along the split
\* axis sum exactly to the screen width (Horizontal) or height (Vertical).
C4_SplitSumsToScreen ==
  (Arranged /\ Len(windows) = 2 /\ windows[1] # windows[2]) =>
    LET cs == Configs(last.cmds)
    IN /\ Len(cs) = 2
       /\ \A i \in 1..2 :
            cs[i].x >= 0 /\ cs[i].y >= 0 /\ cs[i].width >= 0 /\ cs[i].height >= 0
       /\ layout = "Horizontal" => cs[1].width + cs[2].width = screen[1]
       /\ layout = "Vertical" => cs[1].height + cs[2].height = screen[2]

Overlap(r, q) ==
  /\ r.x < q.x + q.width
  /\ q.x < r.x + r.width
  /\ r.y < q.y + q.height
  /\ q.y < r.y + r.height

\* C5: every geometry command issued lies inside the screen (also when the
\* screen width or height is 0), and the two rectangles of one layout do
\* not overlap.
C5_InsideScreenDisjoint ==
  LET cs == Configs(last.cmds)
  IN /\ \A i \in 1..Len(cs) :
          /\ cs[i].x >= 0 /\ cs[i].y >= 0
          /\ cs[i].x + cs[i].width <= screen[1]
          /\ cs[i].y + cs[i].height <= screen[2]
     /\ \A i, j \in 1..Len(cs) : i # j => ~Overlap(cs[i], cs[j])

\* C5 witness: a layout of two windows has been issued on a screen of
\* width 0.
C5_Witness == Arranged /\ Len(Configs(last.cmds)) = 2 /\ screen[1] = 0

\* C6: when the layout is invoked (after a visibility request or a toggle)
\* with fewer than 2 handles tracked, no geometry command is issued.
C6_NoLayoutBelowTwo ==
  (last.branch \in {"map", "toggle"} /\ Len(windows) < 2)
    => Configs(last.cmds) = <<>>

\* C6 witness: a toggle has been processed with one handle tracked, in
\* Vertical mode.
C6_Witness ==
  /\ last.branch = "toggle"
  /\ Len(windows) = 1
  /\ last.layout0 = "Vertical"
  /\ Configs(last.cmds) = <<>>

\* C7: two consecutive toggle key presses return the layout mode to its
\* original value, and with an unchanged tracked set of 2 the geometry
\* commands of the second toggle are those of the original mode and give
\* each window the geometry it had before the first toggle.
C7_DoubleToggle ==
  (last.branch = "toggle" /\ prev.branch = "toggle" /\ ~last.fault) =>
    /\ layout = prev.layout0
    /\ (Len(windows) = 2 /\ windows = prev.windows0) =>
         /\ Configs(last.cmds) = ArrangeCmds(prev.windows0, prev.layout0, screen)
         /\ \A h \in Handles :
              InSeq(windows, h) => geom[h] # <<>> /\ geom[h] = prev.geom0[h]

\* C7 witness: two toggles in a row with two handles tracked.
C7_Witness ==
  /\ last.branch = "toggle"
  /\ prev.branch = "toggle"
  /\ ~last.fault
  /\ Len(windows) = 2
  /\ windows = prev.windows0
  /\ layout = prev.layout0

\* C8: a destroy notification for a handle that is not tracked leaves the
\* tracked set and the layout mode unchanged, issues no command and raises
\* no fault.
C8_DestroyUntracked ==
  [][(/\ evCount' = evCount + 1
      /\ last'.branch = "destroy"
      /\ ~InSeq(windows, last'.ev.window))
       => /\ windows' = windows
          /\ layout' = layout
          /\ geom' = geom
          /\ outbuf' = outbuf
          /\ last'.cmds = <<>>
          /\ ~last'.fault
          /\ faulted' = faulted
          /\ result' = result
          /\ pc' = "flush"]_vars

\* C8 witness: a destroy notification for an untracked handle has just been
\* processed while two handles are tracked.
C8_Witness ==
  /\ last.branch = "destroy"
  /\ ~InSeq(last.windows0, last.ev.window)
  /\ evCount = 1
  /\ Len(windows) = 2

\* C9: the manager never waits with an issued but unflushed command, and it
\* processes exactly one event per loop iteration.
C9_FlushBeforeWait ==
  /\ pc = "wait" => (outbuf = <<>> /\ evCount = 0)
  /\ evCount <= 1
  /\ (pc = "flush" /\ last.branch # "none") => evCount = 1

\* C9 witness: the manager waits after an event that issued commands.
C9_Witness == pc = "wait" /\ Len(last.cmds) = 3 /\ outbuf = <<>>

\* C10: once any call has reported a fault the loop has stopped in a failed
\* state: the run result is the fault, the exit status is non-zero, and no
\* event is received and no command issued afterwards.
C10_FaultIsFatal ==
  /\ [](faulted => (pc = "exited" /\ result = "Err" /\ ExitCode(result) # 0))
  /\ [][faulted => UNCHANGED <<outbuf, last, prev, windows, layout, geom, evCount>>]_vars

\* C10 witness: a geometry command reported a fault while an event was
\* being processed and the run has ended with the fault.
C10_Witness ==
  /\ faulted
  /\ last.fault
  /\ Len(Configs(last.cmds)) = 1
  /\ pc = "exited"
  /\ result = "Err"

\* C11: if the server refuses the root subscription or one of the two key
\* bindings, the manager aborts startup with a fault: it never goes on to
\* event processing and never ends with success.
C11_RefusalAbortsStartup ==
  (errPending # 0 \/ last.ev.kind = "Error")
    => (pc = "exited" /\ result = "Err")

\* C12: a key press with exactly the quit chord ends the loop with success
\* (exit status 0), nothing is issued or received afterwards, and the loop
\* ends with success in no other way.
C12_QuitIsTheOnlySuccess ==
  /\ [](/\ last.branch = "quit" =>
             /\ pc = "exited"
             /\ result = "Ok"
             /\ ExitCode(result) = 0
             /\ last.cmds = <<>>
             /\ last.ev = KeyPress(BitOr(ModMask_CONTROL, ModMask_M4), QuitKeycode)
        /\ result = "Ok" => last.branch = "quit"
        /\ (pc = "exited" /\ last.branch # "quit") =>
             (result = "Err" /\ ExitCode(result) # 0))
  /\ [][pc # "exited"]_vars

\* C12 witness: the quit chord has ended the run while two handles were
\* tracked.
C12_Witness ==
  /\ last.branch = "quit"
  /\ pc = "exited"
  /\ result = "Ok"
  /\ Len(windows) = 2

\* The geometry of a geometry command.
RectOf(c) == [x |-> c.x, y |-> c.y, width |-> c.width, height |-> c.height]

\* C13: wherever the manager waits with exactly two handles tracked, the
\* last geometry issued for the handle at each position of the tracked set
\* is the one the layout assigns to that position under the current mode
\* and screen size.
C13_NoStaleGeometry ==
  (pc = "wait" /\ Len(windows) = 2) =>
    \A i \in 1..2 :
      geom[windows[i]] = <<RectOf(ArrangeCmds(windows, layout, screen)[i])>>

\* C14: right after a destroy notification for handle h has been processed,
\* h occurs nowhere in the tracked set.
C14_DestroyedIsGone ==
  last.branch = "destroy" => ~InSeq(windows, last.ev.window)

\* The sequence ws without the handle h.
Without(ws, h) == LET Keep(x) == x # h IN SelectSeq(ws, Keep)

\* C17: a destroy notification for a tracked handle removes that handle and
\* does nothing else: no command, the same layout mode, and the remaining
\* handle keeps its order and its last-issued geometry.
C17_DestroyOnlyRemoves ==
  (last.branch = "destroy" /\ InSeq(last.windows0, last.ev.window)) =>
    /\ windows = Without(last.windows0, last.ev.window)
    /\ layout = last.layout0
    /\ last.cmds = <<>>
    /\ ~last.fault
    /\ \A h \in Handles : InSeq(windows, h) => geom[h] = last.geom0[h]

\* s is an initial segment of t.
IsPrefix(s, t) == Len(s) <= Len(t) /\ s = SubSeq(t, 1, Len(s))

\* C15: in a visibility request for handle w the make-visible command for w
\* comes before every geometry command of the event, and the layout is
\* computed over the tracked set after w was appended and the eviction
\* applied, so w is one of the two handles arranged whenever two are
\* tracked.
C15_MapThenLayoutOfNewSet ==
  last.branch = "map" =>
    /\ last.cmds = <<>> => last.fault
    /\ last.cmds # <<>> =>
         /\ last.cmds[1] = MapCmd(last.ev.window)
         /\ \A i \in 2..Len(last.cmds) : last.cmds[i].op = "configure"
         /\ windows[Len(windows)] = last.ev.window
    /\ IsPrefix(Configs(last.cmds), ArrangeCmds(windows, layout, screen))
    /\ ~last.fault =>
         /\ Configs(last.cmds) = ArrangeCmds(windows, layout, screen)
         /\ Len(windows) = 2 =>
              \E i \in 1..Len(last.cmds) :
                /\ last.cmds[i].op = "configure"
                /\ last.cmds[i].window = last.ev.window

\* C15 witness: a third handle arrived, was made visible and was arranged
\* together with the survivor.
C15_Witness ==
  /\ last.branch = "map"
  /\ ~last.fault
  /\ Len(last.windows0) = 2
  /\ ~InSeq(last.windows0, last.ev.window)
  /\ Len(last.cmds) = 3
  /\ last.cmds[3].window = last.ev.window

\* C16: with two handles tracked a layout issues exactly two geometry
\* commands in tracked-set order: index 0 gets the tile at (0,0), index 1
\* the tile at (W/2, 0) in Horizontal or (0, H/2) in Vertical, both spanning
\* the screen on the other axis; 1920x1080 gives (0,0,960,1080) and
\* (960,0,960,1080) in Horizontal, (0,0,1920,540) and (0,540,1920,540) in
\* Vertical.
C16_TilesInOrder ==
  (Arranged /\ Len(windows) = 2) =>
    LET cs == Configs(last.cmds)
    IN /\ Len(cs) = 2
       /\ cs[1].window = windows[1]
       /\ cs[2].window = windows[2]
       /\ cs[1].x = 0 /\ cs[1].y = 0
       /\ layout = "Horizontal" =>
            /\ cs[2].x = screen[1] \div 2 /\ cs[2].y = 0
            /\ cs[1].height = screen[2] /\ cs[2].height = screen[2]
       /\ layout = "Vertical" =>
            /\ cs[2].x = 0 /\ cs[2].y = screen[2] \div 2
            /\ cs[1].width = screen[1] /\ cs[2].width = screen[1]
       /\ (screen = <<1920, 1080>> /\ layout = "Horizontal") =>
            /\ RectOf(cs[1]) = [x |-> 0, y |-> 0, width |-> 960, height |-> 1080]
            /\ RectOf(cs[2]) = [x |-> 960, y |-> 0, width |-> 960, height |-> 1080]
       /\ (screen = <<1920, 1080>> /\ layout = "Vertical") =>
            /\ RectOf(cs[1]) = [x |-> 0, y |-> 0, width |-> 1920, height |-> 540]
            /\ RectOf(cs[2]) = [x |-> 0, y |-> 540, width |-> 1920, height |-> 540]

\* C16 witness: two distinct handles on a 1920x1080 screen have been laid
\* out in Vertical mode by a toggle.
C16_Witness ==
  /\ Arranged
  /\ last.branch = "toggle"
  /\ screen = <<1920, 1080>>
  /\ layout = "Vertical"
  /\ Len(windows) = 2
  /\ windows[1] # windows[2]
  /\ Len(Configs(last.cmds)) = 2

\* C18: every geometry command is issued for a handle that is in the
\* tracked set when it is issued; a handle evicted by overflow gets none.
C18_OnlyTrackedArranged ==
  /\ \A i \in 1..Len(last.cmds) :
       last.cmds[i].op = "configure" => InSeq(windows, last.cmds[i].window)
  /\ (Pushed /\ Len(last.windows0) = 2 /\ ~InSeq(windows, last.windows0[1])) =>
       \A i \in 1..Len(last.cmds) :
         last.cmds[i].op = "configure" => last.cmds[i].window # last.windows0[1]

\* C18 witness: arrivals of three distinct handles; the layout after the
\* third arranges the two survivors and not the evicted one.
C18_Witness ==
  /\ Pushed
  /\ ~last.fault
  /\ Len(last.windows0) = 2
  /\ last.windows0[1] # last.windows0[2]
  /\ ~InSeq(last.windows0, last.ev.window)
  /\ Len(Configs(last.cmds)) = 2
  /\ ~InSeq(windows, last.windows0[1])

\* The two registered chords, as key presses.
ToggleChordPress == KeyPress(ModMask_M4, ToggleKeycode)
QuitChordPress == KeyPress(BitOr(ModMask_CONTROL, ModMask_M4), QuitKeycode)

\* C19: a key press that is not exactly the toggle or the quit chord, and
\* any notification other than visibility request, key press and destroy,
\* leaves the tracked set and the layout mode unchanged, issues no command
\* and keeps the loop running; the layout mode changes only on the exact
\* toggle chord and the tracked set gains a handle only on a visibility
\* request.
C19_OthersIgnored ==
  [][/\ (/\ evCount' = evCount + 1
         /\ \/ last'.ev.kind \in {"Other", "Error"}
            \/ /\ last'.ev.kind = "KeyPress"
               /\ last'.ev # ToggleChordPress
               /\ last'.ev # QuitChordPress)
          => /\ windows' = windows
             /\ layout' = layout
             /\ geom' = geom
             /\ outbuf' = outbuf
             /\ last'.cmds = <<>>
             /\ faulted' = faulted
             /\ result' = result
             /\ pc' = "flush"
     /\ layout' # layout
          => (evCount' = evCount + 1 /\ last'.ev = ToggleChordPress)
     /\ (\/ Len(windows') > Len(windows)
         \/ \E h \in Handles : InSeq(windows', h) /\ ~InSeq(windows, h))
          => /\ evCount' = evCount + 1
             /\ last'.ev.kind = "MapRequest"
             /\ windows'[Len(windows')] = last'.ev.window]_vars

\* C19 witness: the toggle key pressed with Control held as well has just
\* been ignored while two handles are tracked.
C19_Witness ==
  /\ last.ev = KeyPress(BitOr(ModMask_CONTROL, ModMask_M4), ToggleKeycode)
  /\ last.branch = "nokey"
  /\ pc = "flush"
  /\ Len(windows) = 2
  /\ layout = last.layout0

\* The startup registrations in the order the claim gives.
StartupRegistrations ==
  << [op |-> "subscribe", mask |-> {"SUBSTRUCTURE_REDIRECT", "SUBSTRUCTURE_NOTIFY"}],
     [op |-> "grab", mods |-> ModMask_M4, key |-> ToggleKeycode],
     [op |-> "grab", mods |-> BitOr(ModMask_CONTROL, ModMask_M4), key |-> QuitKeycode] >>

\* C20: startup begins in Horizontal mode with an empty tracked set; before
\* the first wait the manager has issued the root subscription, the toggle
\* binding and the quit binding, in this order, and no event is received
\* before that.
C20_StartupOrder ==
  /\ [](/\ pc \in {"main", "run"} =>
             /\ layout = "Horizontal"
             /\ windows = <<>>
             /\ outbuf = <<>>
             /\ last.branch = "none"
             /\ evCount = 0
        /\ (pc = "flush" /\ last.branch = "none") =>
             /\ outbuf = StartupRegistrations
             /\ layout = "Horizontal"
             /\ windows = <<>>)
  /\ [][/\ (pc' = "wait" /\ last.branch = "none")
             => (pc = "flush" /\ outbuf = StartupRegistrations)
        /\ evCount' = evCount + 1 => pc = "wait"]_vars

\* C20 witness: the three registrations have been issued and the manager
\* is about to flush them before its first wait.
C20_Witness ==
  /\ pc = "flush"
  /\ last.branch = "none"
  /\ Len(outbuf) = 3
  /\ outbuf[1].op = "subscribe"

====
